---- MODULE Spec2Model ----
(***************************************************************************)
(* Post-scheduling engine of PostAutomationBot (root implementation:       *)
(* scheduler.py, poster_bot.py, database.py, notifier.py).                 *)
(*                                                                         *)
(* Time is counted in whole minutes since 00:00 of day 0.  The job table   *)
(* is the process-wide job list of the `schedule` library, whose semantics *)
(* (every().day.at().do(), run_pending, clear) are written out at the      *)
(* places the source calls them.                                           *)
(***************************************************************************)
EXTENDS Integers, Sequences, FiniteSets, TLC

VARIABLES
    now,          \* wall clock, minutes since 00:00 of day 0
    jobs,         \* schedule.jobs: the list of Job records
    next_id,      \* identity of the next Job object created
    posts,        \* rows of table posts: posts[d][post_type] = rows dated day d,
                  \* posts[d][Failed(post_type)] = those with status FAILURE
    connected,    \* DatabaseManager.connection is open
    is_running,   \* AutomatedPosterBot.is_running
    stopped,      \* stop() has returned
    pc,           \* position of the polling thread
    runnable,     \* run_pending: sorted due jobs not yet run in this call
    cur,          \* the post job whose post_callback is in flight
    ticks,        \* number of run_pending calls that found work
    event,        \* the last completed step of the engine
    num_posts,    \* planner input: number of posts asked for
    minutes_in,   \* planner input: hours_remaining * 60
    plan_now,     \* planner input: datetime.now() at planning time
    post_times,   \* planner output
    planned,      \* the planner has returned
    schedule_config,    \* autopost PostScheduler.schedule_config
    scheduler_running,  \* autopost PostScheduler.is_running
    scheduler_thread,   \* autopost PostScheduler.scheduler_thread (0: None)
    threads,      \* autopost: the polling threads ever created
    calls,        \* autopost: number of calls made on the main thread
    installed_by, \* which PostScheduler instance created each job
    caller,       \* the PostScheduler instance of the last call
    listing       \* the last answer of get_scheduled_jobs

vars == <<now, jobs, next_id, posts, connected, is_running, stopped, pc,
          runnable, cur, ticks, event, num_posts, minutes_in, plan_now,
          post_times, planned, schedule_config, scheduler_running,
          scheduler_thread, threads, calls, installed_by, caller, listing>>

engineVars == <<now, jobs, next_id, posts, connected, is_running, stopped, pc,
                runnable, cur, ticks, event>>

plannerVars == <<num_posts, minutes_in, plan_now, post_times, planned>>

autoVars == <<schedule_config, scheduler_running, scheduler_thread, threads,
             calls>>

pairVars == <<installed_by, caller, listing>>

----------------------------------------------------------------------------
(* Bounds of the model *)

\* a random.uniform / random.randint draw takes Draws+1 evenly spread values
Draws == 2
\* seeds 0..MaxSeed of the random generator are explored in the engine
MaxSeed == 3
\* seeds 0..MaxPlanSeed are explored when the planner is checked on its own
MaxPlanSeed == 15
\* days 0..MaxDay are explored
MaxDay == 1
\* at most MaxPlanned RANDOM posts are still missing when the bot starts
MaxPlanned == 2
\* at most MaxTicks calls of run_pending find work in one behaviour
MaxTicks == 6
\* the planner is asked for at most MaxPosts posts in the planner check
MaxPosts == 3
\* at most MaxCalls calls are made on the main thread of the autopost scheduler
MaxCalls == 4
\* the clock of the autopost scheduler reaches at most MaxFires fire times
MaxFires == 2
\* at most MaxPairCalls calls are made on two schedulers side by side
MaxPairCalls == 3

----------------------------------------------------------------------------
(* Program constants *)

RANDOM_POSTS_PER_DAY == 5
MIN_INTERVAL_MINUTES == 30
MAX_INTERVAL_MINUTES == 240
SCHEDULED_POST_TIME == 12 * 60
NOTICE_LEAD_MINUTES == 60
SLEEP_MINUTES == 1
DAY == 24 * 60

----------------------------------------------------------------------------
(* Clock helpers *)

Max(a, b) == IF a >= b THEN a ELSE b
Min(a, b) == IF a <= b THEN a ELSE b

TimeOfDay(t) == t % DAY
DateOf(t) == t \div DAY
HourOf(t) == TimeOfDay(t) \div 60

\* datetime.replace(hour=h, minute=m): same date, seconds kept
ReplaceHourMinute(t, h, m) == DateOf(t) * DAY + h * 60 + m

\* minutes until 23:59:59.999999 of today, the microsecond rounded up
calculate_time_remaining_today(t) == (23 * 60 + 59 + 1) - TimeOfDay(t)

----------------------------------------------------------------------------
(* Slot planner *)

\* The ambient random generator: a seed fixes every draw of one planning call.
\* The draws for slot i take digit i of the seed in base Draws + 1.
Digit(seed, d) == (seed \div ((Draws + 1) ^ d)) % (Draws + 1)

\* random.uniform(lo, hi) = lo + (hi - lo) * random(), random() in [0, 1):
\* digit k stands for random() = k / (Draws + 1)
Uniform(lo, hi, k) == lo + (k * (hi - lo)) \div (Draws + 1)

\* random.randint(0, 59), both ends included: digit k stands for 59 * k / Draws
RandMinute(k) == (k * 59) \div Draws

min_interval(n, W) == Max(MIN_INTERVAL_MINUTES, W \div (n + 1))
max_interval(n, W) == Max(Min(MAX_INTERVAL_MINUTES, W \div n), min_interval(n, W))

\* the clamp of a post_time whose hour is 23
ClampToday(post_time, k) ==
    IF HourOf(post_time) >= 23
    THEN ReplaceHourMinute(post_time, 22, RandMinute(k))
    ELSE post_time

\* one iteration of the loop: post_time of slot i after current_time
SlotTime(i, current_time, n, W, seed) ==
    LET interval == IF i = 0
                    THEN Uniform(min_interval(n, W), min_interval(n, W) * 2,
                                 Digit(seed, i))
                    ELSE Uniform(min_interval(n, W), max_interval(n, W),
                                 Digit(seed, i))
    IN ClampToday(current_time + interval, Digit(seed, i))

RECURSIVE PlanFrom(_, _, _, _, _)
PlanFrom(i, current_time, n, W, seed) ==
    IF i = n THEN <<>>
    ELSE LET post_time == SlotTime(i, current_time, n, W, seed)
         IN <<post_time>> \o PlanFrom(i + 1, post_time, n, W, seed)

Sorted(s) == SortSeq(s, LAMBDA a, b : a < b)

\* the planner without the test of hours_remaining
distribute_posts_unguarded(n, W, t, seed) ==
    IF n <= 0 THEN <<>>
    ELSE Sorted(PlanFrom(0, t, n, W, seed))

\* distribute_posts_intelligently(n, W / 60) called at time t
distribute_posts_intelligently(n, W, t, seed) ==
    IF n <= 0 \/ W <= 0 THEN <<>>
    ELSE Sorted(PlanFrom(0, t, n, W, seed))

----------------------------------------------------------------------------
(* Quota tracker: DatabaseManager *)

\* get_today_posts_count(post_type): a closed connection raises an Error,
\* which the method catches and answers 0
\* the place of the rows of a type that carry status FAILURE
Failed(post_type) ==
    IF post_type = "RANDOM" THEN "RANDOM_FAILURE" ELSE "SCHEDULED_FAILURE"

\* the count taken over the rows of status SUCCESS alone
get_today_posts_count_successes(post_type, t) ==
    IF connected
    THEN posts[DateOf(t)][post_type] - posts[DateOf(t)][Failed(post_type)]
    ELSE 0

get_today_posts_count(post_type, t) ==
    IF connected THEN posts[DateOf(t)][post_type] ELSE 0

\* log_post: one more row dated today, with its status; an Error is caught
\* and nothing is written
log_post(post_type, status, t) ==
    IF connected
    THEN [posts EXCEPT ![DateOf(t)][post_type] = @ + 1,
                       ![DateOf(t)][Failed(post_type)] =
                            IF status = "FAILURE" THEN @ + 1 ELSE @]
    ELSE posts

\* the count taken over the posts of every type
calculate_remaining_posts_any_type(t) ==
    Max(0, RANDOM_POSTS_PER_DAY - (get_today_posts_count("RANDOM", t)
                                   + get_today_posts_count("SCHEDULED", t)))

calculate_remaining_posts(t) ==
    Max(0, RANDOM_POSTS_PER_DAY - get_today_posts_count("RANDOM", t))

----------------------------------------------------------------------------
(* Job table: the default scheduler of the schedule library *)

\* Job._schedule_next_run for every().day.at(at_time): the next occurrence of
\* the clock time at_time strictly after the time of day of t
NextRun(at_time, t) ==
    IF at_time > TimeOfDay(t)
    THEN DateOf(t) * DAY + at_time
    ELSE (DateOf(t) + 1) * DAY + at_time

\* schedule.every().day.at(at_time).do(job_func, ...).tag(tag) at time t
NewJob(id, tag, job_func, post_type, at_time, t) ==
    [id |-> id, tag |-> tag, job_func |-> job_func, post_type |-> post_type,
     at_time |-> at_time, next_run |-> NextRun(at_time, t),
     runs |-> 0, attempts |-> 0, missed |-> 0]

Tag(notify, base, idx) == [notify |-> notify, base |-> base, idx |-> idx]

\* strftime("%H:%M") of a timestamp, as a clock time
ClockTime(t) == TimeOfDay(t)

\* the two jobs schedule_remaining_posts installs for slot i
RandomJobs(id, i, post_time, t) ==
    << NewJob(id, Tag(FALSE, "random_post", i), "post_callback", "RANDOM",
              ClockTime(post_time), t),
       NewJob(id + 1, Tag(TRUE, "random_post", i), "send_notification", "RANDOM",
              ClockTime(post_time - NOTICE_LEAD_MINUTES), t) >>

RECURSIVE InstallSlots(_, _, _, _)
InstallSlots(id, i, slots, t) ==
    IF i >= Len(slots) THEN <<>>
    ELSE RandomJobs(id, i, slots[i + 1], t) \o InstallSlots(id + 2, i + 1, slots, t)

\* the plans schedule_remaining_posts can draw at time t
RemainingPlans(t) ==
    IF calculate_remaining_posts(t) = 0 THEN { <<>> }
    ELSE { distribute_posts_intelligently(calculate_remaining_posts(t),
                                          calculate_time_remaining_today(t), t, seed)
           : seed \in 0..MaxSeed }

\* the new slots installed in place of the whole table
schedule_remaining_posts_afresh(js, id, slots, t) == InstallSlots(id, 0, slots, t)

\* schedule_remaining_posts, the plan drawn being slots: the job list after it
schedule_remaining_posts(js, id, slots, t) == js \o InstallSlots(id, 0, slots, t)

\* schedule_daily_post
schedule_daily_post(js, id, t) ==
    js \o << NewJob(id, Tag(FALSE, "daily_post", 0), "post_callback", "SCHEDULED",
                    SCHEDULED_POST_TIME, t),
             NewJob(id + 1, Tag(TRUE, "daily_post", 0), "send_notification", "SCHEDULED",
                    SCHEDULED_POST_TIME - NOTICE_LEAD_MINUTES, t) >>

\* the table left as it is
clear_all_schedules_skipped(js) == js

\* clear_all_schedules: schedule.clear()
clear_all_schedules(js) == <<>>

\* the tag strings random_post_<i> and notify_random_post_<i> end in an index
Indexed(tag) == tag.base = "random_post"

\* a tag string equals name
TagEquals(tag, name) == ~tag.notify /\ tag.base = name /\ ~Indexed(tag)

\* clear_random_posts: schedule.clear("random_post") deletes the jobs one of
\* whose tags equals "random_post"
clear_random_posts(js) ==
    SelectSeq(js, LAMBDA j : ~TagEquals(j.tag, "random_post"))

\* get_scheduled_jobs: one entry per job of schedule.jobs
get_scheduled_jobs(js) ==
    [k \in 1..Len(js) |->
        [id |-> js[k].id, at_time |-> js[k].at_time, tag |-> js[k].tag,
         job_func |-> js[k].job_func]]

\* initialize_daily_schedule, the plan drawn being slots
initialize_daily_schedule(js, id, slots, t) ==
    schedule_remaining_posts(schedule_daily_post(clear_all_schedules(js), id, t),
                             id + 2, slots, t)

InTable(id) == \E k \in 1..Len(jobs) : jobs[k].id = id

\* Job.__lt__ orders by next_run; sorted() is stable, so ties keep list order,
\* which is the order of creation
RunsBefore(a, b) ==
    \/ a.next_run < b.next_run
    \/ a.next_run = b.next_run /\ a.id < b.id

\* run_pending: sorted(job for job in self.jobs if job.should_run)
DueJobs(js, t) == SortSeq(SelectSeq(js, LAMBDA j : j.next_run <= t), RunsBefore)

Capped(n) == Min(n, 2)

\* Job.run after job_func returned: last_run = now, _schedule_next_run()
Rescheduled(js, id, t) ==
    [k \in 1..Len(js) |->
        IF js[k].id = id
        THEN [js[k] EXCEPT !.next_run = NextRun(js[k].at_time, t),
                           !.runs = Capped(@ + 1), !.attempts = 0, !.missed = 0]
        ELSE js[k]]

SeqIds(s) == { s[k].id : k \in 1..Len(s) }

\* an exception leaves run_pending: the job that raised keeps its next_run,
\* and the jobs still waiting in this call are not run
Aborted(js, id, waiting) ==
    [k \in 1..Len(js) |->
        IF js[k].id = id
        THEN [js[k] EXCEPT !.runs = Capped(@ + 1), !.attempts = Capped(@ + 1)]
        ELSE IF js[k].id \in SeqIds(waiting)
        THEN [js[k] EXCEPT !.missed = Capped(@ + 1)]
        ELSE js[k]]

----------------------------------------------------------------------------
(* The autopost package: services/scheduler.py *)

\* PostScheduler.__init__: the default schedule configuration
DefaultConfig ==
    [daily_post_time |-> 10 * 60, random_posts_per_day |-> 6,
     start_time |-> 8 * 60, end_time |-> 22 * 60]

\* the table with "13:45" mistyped as "11:45"
strategic_times_typo ==
    << 11 * 60 + 30, 11 * 60 + 45, 15 * 60 + 15, 17 * 60 + 30, 19 * 60,
       20 * 60 + 45 >>

\* the "Balanced Day" clock times of _calculate_time_slots
strategic_times ==
    << 11 * 60 + 30, 13 * 60 + 45, 15 * 60 + 15, 17 * 60 + 30, 19 * 60,
       20 * 60 + 45 >>

\* the fallback branch of _calculate_time_slots, slots i .. num_slots - 1:
\* slot_minutes = start.minute + (i + 1) * total_minutes / (num_slots + 1)
RECURSIVE FallbackSlots(_, _, _, _)
FallbackSlots(i, start_time, end_time, num_slots) ==
    IF i >= num_slots THEN <<>>
    ELSE LET total_minutes == end_time - start_time
             slot_minutes == (start_time % 60)
                             + ((i + 1) * total_minutes) \div (num_slots + 1)
             slot_hour == (start_time \div 60) + slot_minutes \div 60
             slot_minute == slot_minutes % 60
         IN IF \/ slot_hour > end_time \div 60
               \/ slot_hour = end_time \div 60 /\ slot_minute >= end_time % 60
            THEN <<>>
            ELSE <<slot_hour * 60 + slot_minute>>
                 \o FallbackSlots(i + 1, start_time, end_time, num_slots)

_calculate_time_slots(start_time, end_time, num_slots) ==
    IF num_slots <= Len(strategic_times)
    THEN SelectSeq(SubSeq(strategic_times, 1, num_slots),
                   LAMBDA slot_time : start_time <= slot_time /\ slot_time <= end_time)
    ELSE FallbackSlots(0, start_time, end_time, num_slots)

\* the jobs of the autopost scheduler carry no tag
NoTag == Tag(FALSE, "untagged", 0)

\* _setup_random_posts: one job per slot, at the slot's clock time
RECURSIVE _setup_random_posts(_, _, _, _)
_setup_random_posts(id, i, time_slots, t) ==
    IF i >= Len(time_slots) THEN <<>>
    ELSE << NewJob(id, NoTag, "_execute_scheduled_post", "RANDOM",
                   time_slots[i + 1], t) >>
         \o _setup_random_posts(id + 1, i + 1, time_slots, t)

\* setup_daily_schedule at time t: schedule.clear(), the daily job, the
\* random jobs
setup_daily_schedule(js, id, config, t) ==
    << NewJob(id, NoTag, "_execute_scheduled_post", "SCHEDULED",
              config.daily_post_time, t) >>
    \o _setup_random_posts(id + 1, 0,
                           _calculate_time_slots(config.start_time, config.end_time,
                                                 config.random_posts_per_day), t)

\* _should_make_post
_should_make_post(post_type, config, t) ==
    IF post_type = "RANDOM"
    THEN get_today_posts_count("RANDOM", t) < config.random_posts_per_day
    ELSE get_today_posts_count("SCHEDULED", t) < 1

\* the guard at the head of AutomatedPosterBot.post_callback (core/bot.py)
CallbackGuard(post_type, t) ==
    IF post_type = "RANDOM"
    THEN get_today_posts_count("RANDOM", t) < 5
    ELSE get_today_posts_count("SCHEDULED", t) < 1

\* a polling thread: where it is in _run_scheduler, the due jobs it still has
\* to run in this call of run_pending, the job it is running
Thread(at, waiting, j) == [pc |-> at, runnable |-> waiting, job |-> j]

AutoIdle ==
    /\ schedule_config = DefaultConfig
    /\ scheduler_running = FALSE
    /\ scheduler_thread = 0
    /\ threads = <<>>
    /\ calls = 0

PairIdle ==
    /\ installed_by = <<>>
    /\ caller = 0
    /\ listing = <<>>

----------------------------------------------------------------------------
(* The bot and its polling thread *)

StartTimes == { 8 * 60, 21 * 60, 23 * 60 + 30 }

Horizon == (MaxDay + 1) * DAY

Event(op, j, success, notified, replanned, in_table) ==
    [op |-> op, id |-> j.id, post_type |-> j.post_type, success |-> success,
     notified |-> notified, replanned |-> replanned,
     prior_runs |-> j.runs, prior_attempts |-> j.attempts, in_table |-> in_table]

NoJob == [id |-> 0, post_type |-> "NONE", runs |-> 0, attempts |-> 0]

Nothing == Event("none", NoJob, FALSE, FALSE, FALSE, FALSE)

\* the Job object as it is now (the table's copy when it is still there)
Current(j) ==
    IF InTable(j.id)
    THEN jobs[CHOOSE k \in 1..Len(jobs) : jobs[k].id = j.id]
    ELSE j

PlannerIdle ==
    /\ num_posts = 0
    /\ minutes_in = 0
    /\ plan_now = 0
    /\ post_times = <<>>
    /\ planned = FALSE

Init ==
    /\ now \in StartTimes
    /\ jobs = <<>>
    /\ next_id = 1
    /\ \E logged \in (RANDOM_POSTS_PER_DAY - MaxPlanned)..RANDOM_POSTS_PER_DAY :
          posts = [d \in 0..MaxDay |->
                     [RANDOM |-> IF d = 0 THEN logged ELSE 0, SCHEDULED |-> 0,
                      RANDOM_FAILURE |-> 0, SCHEDULED_FAILURE |-> 0]]
    /\ connected = FALSE
    /\ is_running = FALSE
    /\ stopped = FALSE
    /\ pc = "none"
    /\ runnable = <<>>
    /\ cur = Nothing
    /\ ticks = 0
    /\ event = Nothing
    /\ PlannerIdle
    /\ AutoIdle
    /\ PairIdle

\* AutomatedPosterBot.start: initialize(), initialize_daily_schedule, thread start
Start ==
    /\ ~is_running /\ ~stopped /\ pc = "none"
    /\ is_running' = TRUE
    /\ connected' = TRUE
    /\ UNCHANGED <<now, posts, stopped, runnable, cur, ticks>>
    /\ \E slots \in RemainingPlans(now)' :
          /\ jobs' = initialize_daily_schedule(jobs, next_id, slots, now)
          /\ next_id' = next_id + 2 + 2 * Len(slots)
    /\ pc' = "sleep"
    /\ event' = Event("initialize", NoJob, FALSE, FALSE, FALSE, FALSE)
    /\ UNCHANGED <<plannerVars, autoVars, pairVars>>

\* AutomatedPosterBot.stop, called on the main thread
Stop ==
    /\ is_running
    /\ is_running' = FALSE
    /\ jobs' = clear_all_schedules(jobs)
    /\ connected' = FALSE
    /\ stopped' = TRUE
    /\ event' = Event("stop", NoJob, FALSE, FALSE, FALSE, FALSE)
    /\ UNCHANGED <<now, next_id, posts, pc, runnable, cur, ticks>>
    /\ UNCHANGED <<plannerVars, autoVars, pairVars>>

FireTimes == { jobs[k].next_run : k \in 1..Len(jobs) }

\* the clock time at which the loop of run_scheduler next finds work: one
\* sleep later when a job is already overdue, else the earliest fire time
\* (the idle passes before it change nothing)
TickTimes ==
    IF \E f \in FireTimes : f <= now
    THEN { now + SLEEP_MINUTES }
    ELSE { f \in FireTimes : \A g \in FireTimes : f <= g }

\* run_scheduler: time.sleep(60) is over and run_pending collects the due jobs;
\* the process ends once start() has returned after stop()
Tick ==
    /\ pc = "sleep" /\ ~stopped
    /\ ticks < MaxTicks
    /\ ticks' = ticks + 1
    /\ \E t \in TickTimes :
          /\ t < Horizon
          /\ now' = t
          /\ runnable' = DueJobs(jobs, t)
    /\ pc' = "run"
    /\ event' = Event("tick", NoJob, FALSE, FALSE, FALSE, FALSE)
    /\ UNCHANGED <<jobs, next_id, posts, connected, is_running, stopped, cur>>
    /\ UNCHANGED <<plannerVars, autoVars, pairVars>>

AfterJob(waiting) == IF waiting = <<>> THEN "sleep" ELSE "run"

\* run_pending runs an advance-notice job: send_notification returns
NoticeSent ==
    /\ pc = "run" /\ runnable # <<>>
    /\ Head(runnable).job_func = "send_notification"
    /\ LET j == Current(Head(runnable)) IN
          /\ jobs' = Rescheduled(jobs, j.id, now)
          /\ event' = Event("notify", j, FALSE, TRUE, FALSE, InTable(j.id))
    /\ runnable' = Tail(runnable)
    /\ pc' = AfterJob(Tail(runnable))
    /\ UNCHANGED <<now, next_id, posts, connected, is_running, stopped, cur, ticks>>
    /\ UNCHANGED <<plannerVars, autoVars, pairVars>>

\* run_pending runs an advance-notice job: notification.notify raises, the
\* exception leaves run_pending and is caught in run_scheduler
NoticeRaises ==
    /\ pc = "run" /\ runnable # <<>>
    /\ Head(runnable).job_func = "send_notification"
    /\ LET j == Current(Head(runnable)) IN
          /\ jobs' = Aborted(jobs, j.id, Tail(runnable))
          /\ event' = Event("notify", j, FALSE, FALSE, FALSE, InTable(j.id))
    /\ runnable' = <<>>
    /\ pc' = "sleep"
    /\ UNCHANGED <<now, next_id, posts, connected, is_running, stopped, cur, ticks>>
    /\ UNCHANGED <<plannerVars, autoVars, pairVars>>

\* run_pending runs a post job: post_callback calls make_post, which posts
\* and logs the attempt as SUCCESS or FAILURE
MakePost ==
    /\ pc = "run" /\ runnable # <<>>
    /\ Head(runnable).job_func = "post_callback"
    /\ \E success \in BOOLEAN :
          LET j == Current(Head(runnable)) IN
             /\ cur' = Event("post", j, success, FALSE, FALSE, InTable(j.id))
             /\ posts' = log_post(Head(runnable).post_type,
                                  IF success THEN "SUCCESS" ELSE "FAILURE", now)
    /\ runnable' = Tail(runnable)
    /\ pc' = "callback"
    /\ event' = Event("make_post", Head(runnable), FALSE, FALSE, FALSE, FALSE)
    /\ UNCHANGED <<now, jobs, next_id, connected, is_running, stopped, ticks>>
    /\ UNCHANGED <<plannerVars, autoVars, pairVars>>

\* rest of post_callback: the result notification is sent, a successful
\* RANDOM post re-plans, and Job.run schedules the job's next run
CallbackReturns ==
    /\ pc = "callback"
    /\ LET replan == cur.success /\ cur.post_type = "RANDOM" IN
       \E slots \in (IF replan THEN RemainingPlans(now) ELSE { <<>> }) :
          /\ jobs' = Rescheduled(schedule_remaining_posts(jobs, next_id, slots, now),
                                 cur.id, now)
          /\ next_id' = next_id + 2 * Len(slots)
          /\ event' = [cur EXCEPT !.notified = TRUE, !.replanned = replan]
    /\ cur' = Nothing
    /\ pc' = AfterJob(runnable)
    /\ UNCHANGED <<now, posts, connected, is_running, stopped, runnable, ticks>>
    /\ UNCHANGED <<plannerVars, autoVars, pairVars>>

\* rest of post_callback: notification.notify raises; the exception leaves
\* post_callback and run_pending and is caught in run_scheduler
CallbackRaises ==
    /\ pc = "callback"
    /\ jobs' = Aborted(jobs, cur.id, runnable)
    /\ event' = cur
    /\ cur' = Nothing
    /\ runnable' = <<>>
    /\ pc' = "sleep"
    /\ UNCHANGED <<now, next_id, posts, connected, is_running, stopped, ticks>>
    /\ UNCHANGED <<plannerVars, autoVars, pairVars>>

Next ==
    \/ Start
    \/ Stop
    \/ Tick
    \/ NoticeSent
    \/ NoticeRaises
    \/ MakePost
    \/ CallbackReturns
    \/ CallbackRaises

Spec == Init /\ [][Next]_vars

\* the engine on a host whose notifier never raises
NextNotified ==
    \/ Start
    \/ Stop
    \/ Tick
    \/ NoticeSent
    \/ MakePost
    \/ CallbackReturns

SpecNotified == Init /\ [][NextNotified]_vars

\* run_scheduler in a process that lives on after stop(): the loop is
\* `while True`, so time.sleep(60) ends and run_pending is called again
PollAfterStop ==
    /\ pc = "sleep" /\ stopped
    /\ ticks < MaxTicks
    /\ ticks' = ticks + 1
    /\ now + SLEEP_MINUTES < Horizon
    /\ now' = now + SLEEP_MINUTES
    /\ runnable' = DueJobs(jobs, now + SLEEP_MINUTES)
    /\ pc' = AfterJob(runnable')
    /\ event' = Event("tick", NoJob, FALSE, FALSE, FALSE, FALSE)
    /\ UNCHANGED <<jobs, next_id, posts, connected, is_running, stopped, cur>>
    /\ UNCHANGED <<plannerVars, autoVars, pairVars>>

\* the bot used from a program that goes on after stop()
NextHeld ==
    \/ NextNotified
    \/ PollAfterStop

SpecHeld == Init /\ [][NextHeld]_vars

----------------------------------------------------------------------------
(* Planner on its own: inputs drawn at Init, one call *)

PlanClockTimes == { 0, 8 * 60, 20 * 60, 21 * 60, 22 * 60 + 30, 23 * 60 + 30 }

PlanWindows(t) == { 0, 45, 5 * 60, calculate_time_remaining_today(t) }

EngineIdle ==
    /\ now = 0
    /\ jobs = <<>>
    /\ next_id = 1
    /\ posts = [d \in 0..MaxDay |-> [RANDOM |-> 0, SCHEDULED |-> 0,
                      RANDOM_FAILURE |-> 0, SCHEDULED_FAILURE |-> 0]]
    /\ connected = FALSE
    /\ is_running = FALSE
    /\ stopped = FALSE
    /\ pc = "none"
    /\ runnable = <<>>
    /\ cur = Nothing
    /\ ticks = 0
    /\ event = Nothing

InitPlan ==
    /\ EngineIdle
    /\ num_posts \in 0..MaxPosts
    /\ plan_now \in PlanClockTimes
    /\ minutes_in \in PlanWindows(plan_now)
    /\ post_times = <<>>
    /\ planned = FALSE
    /\ AutoIdle
    /\ PairIdle

PlanSlots ==
    /\ ~planned
    /\ \E seed \in 0..MaxPlanSeed :
          post_times' = distribute_posts_intelligently(num_posts, minutes_in,
                                                       plan_now, seed)
    /\ planned' = TRUE
    /\ UNCHANGED <<num_posts, minutes_in, plan_now>>
    /\ UNCHANGED <<engineVars, autoVars, pairVars>>

NextPlan == PlanSlots

SpecPlan == InitPlan /\ [][NextPlan]_vars

----------------------------------------------------------------------------
(* The autopost scheduler: calls on the main thread, polling threads *)

AutoStartTimes == { 8 * 60, 22 * 60 + 30 }

\* new_config of update_schedule_config, merged into the configuration
ConfigUpdates(config) ==
    { [config EXCEPT !.random_posts_per_day = 7],
      [config EXCEPT !.end_time = 18 * 60] }

InitAuto ==
    /\ now \in AutoStartTimes
    /\ jobs = <<>>
    /\ next_id = 1
    /\ \E logged \in {0, 5} :
          posts = [d \in 0..MaxDay |->
                     [RANDOM |-> IF d = 0 THEN logged ELSE 0, SCHEDULED |-> 0,
                      RANDOM_FAILURE |-> 0, SCHEDULED_FAILURE |-> 0]]
    /\ connected = TRUE
    /\ is_running = FALSE
    /\ stopped = FALSE
    /\ pc = "none"
    /\ runnable = <<>>
    /\ cur = Nothing
    /\ ticks = 0
    /\ event = Nothing
    /\ PlannerIdle
    /\ AutoIdle
    /\ PairIdle

Called(op) == Event(op, NoJob, FALSE, FALSE, FALSE, FALSE)

\* PostScheduler.setup_daily_schedule
AutoSetup ==
    /\ calls < MaxCalls
    /\ calls' = calls + 1
    /\ jobs' = setup_daily_schedule(jobs, next_id, schedule_config, now)
    /\ next_id' = next_id + Len(jobs')
    /\ event' = Called("setup")
    /\ UNCHANGED <<now, posts, connected, is_running, stopped, pc, runnable, cur,
                   ticks>>
    /\ UNCHANGED <<schedule_config, scheduler_running, scheduler_thread, threads>>
    /\ UNCHANGED <<plannerVars, pairVars>>

\* threading.Thread(target=self._run_scheduler).start()
Spawned(ths) == Append(ths, Thread("loop", <<>>, NoJob))

\* PostScheduler.start
SchedStart ==
    /\ calls < MaxCalls
    /\ ~scheduler_running
    /\ calls' = calls + 1
    /\ scheduler_running' = TRUE
    /\ threads' = Spawned(threads)
    /\ scheduler_thread' = Len(threads) + 1
    /\ event' = Called("start")
    /\ UNCHANGED <<now, jobs, next_id, posts, connected, is_running, stopped, pc,
                   runnable, cur, ticks, schedule_config>>
    /\ UNCHANGED <<plannerVars, pairVars>>

\* scheduler_thread.join(timeout=5) with is_running False: a thread between
\* two polls sees the flag and ends; a thread inside run_pending is still
\* there when the join times out
Joined(ths, tid) ==
    [k \in 1..Len(ths) |->
        IF k = tid /\ ths[k].pc = "loop" THEN Thread("dead", <<>>, NoJob)
        ELSE ths[k]]

\* PostScheduler.stop
SchedStop ==
    /\ calls < MaxCalls
    /\ scheduler_running
    /\ calls' = calls + 1
    /\ scheduler_running' = FALSE
    /\ threads' = Joined(threads, scheduler_thread)
    /\ event' = Called("stop")
    /\ UNCHANGED <<now, jobs, next_id, posts, connected, is_running, stopped, pc,
                   runnable, cur, ticks, schedule_config, scheduler_thread>>
    /\ UNCHANGED <<plannerVars, pairVars>>

\* is_running stays False through stop() and time.sleep(1): every thread
\* between two polls sees it and ends
Lapsed(ths) ==
    [k \in 1..Len(ths) |->
        IF ths[k].pc = "loop" THEN Thread("dead", <<>>, NoJob) ELSE ths[k]]

\* PostScheduler.update_schedule_config: the configuration is merged and a
\* running scheduler is stopped and started again
UpdateConfig ==
    /\ calls < MaxCalls
    /\ calls' = calls + 1
    /\ \E config \in ConfigUpdates(schedule_config) : schedule_config' = config
    /\ IF scheduler_running
       THEN /\ threads' = Spawned(Lapsed(threads))
            /\ scheduler_thread' = Len(threads) + 1
       ELSE UNCHANGED <<threads, scheduler_thread>>
    /\ event' = Called("update")
    /\ UNCHANGED <<now, jobs, next_id, posts, connected, is_running, stopped, pc,
                   runnable, cur, ticks, scheduler_running>>
    /\ UNCHANGED <<plannerVars, pairVars>>

\* the wall clock reaches the next fire time of the job table
AutoClock ==
    /\ ticks < MaxFires
    /\ ticks' = ticks + 1
    /\ \E t \in { f \in FireTimes : f > now } :
          /\ \A g \in FireTimes : g > now => t <= g
          /\ t < Horizon
          /\ now' = t
    /\ event' = Called("clock")
    /\ UNCHANGED <<jobs, next_id, posts, connected, is_running, stopped, pc,
                   runnable, cur>>
    /\ UNCHANGED <<plannerVars, autoVars, pairVars>>

\* _run_scheduler: is_running is True and run_pending collects the due jobs
ThreadPoll(tid) ==
    /\ threads[tid].pc = "loop"
    /\ scheduler_running
    /\ DueJobs(jobs, now) # <<>>
    /\ threads' = [threads EXCEPT ![tid] = Thread("pending", DueJobs(jobs, now), NoJob)]
    /\ event' = Called("poll")
    /\ UNCHANGED <<now, jobs, next_id, posts, connected, is_running, stopped, pc,
                   runnable, cur, ticks>>
    /\ UNCHANGED <<schedule_config, scheduler_running, scheduler_thread, calls>>
    /\ UNCHANGED <<plannerVars, pairVars>>

\* _run_scheduler: is_running is False and the thread ends
ThreadExit(tid) ==
    /\ threads[tid].pc = "loop"
    /\ ~scheduler_running
    /\ threads' = [threads EXCEPT ![tid] = Thread("dead", <<>>, NoJob)]
    /\ event' = Called("exit")
    /\ UNCHANGED <<now, jobs, next_id, posts, connected, is_running, stopped, pc,
                   runnable, cur, ticks>>
    /\ UNCHANGED <<schedule_config, scheduler_running, scheduler_thread, calls>>
    /\ UNCHANGED <<plannerVars, pairVars>>

\* run_pending: Job.run calls job_func of the next due job
ThreadDispatch(tid) ==
    /\ threads[tid].pc = "pending"
    /\ threads' = [threads EXCEPT ![tid] =
                      Thread("dispatch", Tail(threads[tid].runnable),
                             Head(threads[tid].runnable))]
    /\ event' = Event("dispatch", Head(threads[tid].runnable), FALSE, FALSE, FALSE,
                      InTable(Head(threads[tid].runnable).id))
    /\ UNCHANGED <<now, jobs, next_id, posts, connected, is_running, stopped, pc,
                   runnable, cur, ticks>>
    /\ UNCHANGED <<schedule_config, scheduler_running, scheduler_thread, calls>>
    /\ UNCHANGED <<plannerVars, pairVars>>

\* _execute_scheduled_post returns: the post was made and logged unless a
\* guard skipped it; Job.run schedules the job's next run
ThreadFinish(tid) ==
    /\ threads[tid].pc = "dispatch"
    /\ LET j == threads[tid].job
           made == /\ _should_make_post(j.post_type, schedule_config, now)
                   /\ CallbackGuard(j.post_type, now)
       IN /\ posts' = IF made THEN log_post(j.post_type, "SUCCESS", now) ELSE posts
          /\ jobs' = Rescheduled(jobs, j.id, now)
          /\ event' = Event("execute", j, made, FALSE, FALSE, InTable(j.id))
    /\ threads' = [threads EXCEPT ![tid] =
                      Thread(IF threads[tid].runnable = <<>> THEN "loop" ELSE "pending",
                             threads[tid].runnable, NoJob)]
    /\ UNCHANGED <<now, next_id, connected, is_running, stopped, pc, runnable, cur,
                   ticks>>
    /\ UNCHANGED <<schedule_config, scheduler_running, scheduler_thread, calls>>
    /\ UNCHANGED <<plannerVars, pairVars>>

NextAuto ==
    \/ AutoSetup
    \/ SchedStart
    \/ SchedStop
    \/ UpdateConfig
    \/ AutoClock
    \/ \E tid \in 1..Len(threads) : ThreadPoll(tid)
    \/ \E tid \in 1..Len(threads) : ThreadExit(tid)
    \/ \E tid \in 1..Len(threads) : ThreadDispatch(tid)
    \/ \E tid \in 1..Len(threads) : ThreadFinish(tid)

SpecAuto == InitAuto /\ [][NextAuto]_vars

----------------------------------------------------------------------------
(* Two PostScheduler instances of scheduler.py in one process *)

Instances == {1, 2}

InitPair ==
    /\ now = 8 * 60
    /\ jobs = <<>>
    /\ next_id = 1
    /\ \E logged \in (RANDOM_POSTS_PER_DAY - 1)..RANDOM_POSTS_PER_DAY :
          posts = [d \in 0..MaxDay |->
                     [RANDOM |-> IF d = 0 THEN logged ELSE 0, SCHEDULED |-> 0,
                      RANDOM_FAILURE |-> 0, SCHEDULED_FAILURE |-> 0]]
    /\ connected = TRUE
    /\ is_running = FALSE
    /\ stopped = FALSE
    /\ pc = "none"
    /\ runnable = <<>>
    /\ cur = Nothing
    /\ ticks = 0
    /\ event = Nothing
    /\ PlannerIdle
    /\ AutoIdle
    /\ PairIdle

\* the jobs with identities from through to - 1 were created by instance e
Installed(owner, from, to, e) ==
    owner \o [k \in 1..(to - from) |-> e]

PairFrame ==
    /\ UNCHANGED <<now, posts, connected, is_running, stopped, pc, runnable, cur,
                   ticks>>
    /\ UNCHANGED <<schedule_config, scheduler_running, scheduler_thread, threads>>
    /\ UNCHANGED plannerVars

\* instance e: initialize_daily_schedule
PairInitialize(e) ==
    /\ calls < MaxPairCalls
    /\ calls' = calls + 1
    /\ \E slots \in RemainingPlans(now) :
          /\ jobs' = initialize_daily_schedule(jobs, next_id, slots, now)
          /\ next_id' = next_id + 2 + 2 * Len(slots)
    /\ installed_by' = Installed(installed_by, next_id, next_id', e)
    /\ caller' = e
    /\ event' = Called("initialize")
    /\ UNCHANGED listing
    /\ PairFrame

\* instance e: schedule_remaining_posts
PairScheduleRemaining(e) ==
    /\ calls < MaxPairCalls
    /\ calls' = calls + 1
    /\ \E slots \in RemainingPlans(now) :
          /\ jobs' = schedule_remaining_posts(jobs, next_id, slots, now)
          /\ next_id' = next_id + 2 * Len(slots)
    /\ installed_by' = Installed(installed_by, next_id, next_id', e)
    /\ caller' = e
    /\ event' = Called("schedule_remaining_posts")
    /\ UNCHANGED listing
    /\ PairFrame

\* instance e: clear_all_schedules
PairClearAll(e) ==
    /\ calls < MaxPairCalls
    /\ calls' = calls + 1
    /\ jobs' = clear_all_schedules(jobs)
    /\ caller' = e
    /\ event' = Called("clear_all_schedules")
    /\ UNCHANGED <<next_id, installed_by, listing>>
    /\ PairFrame

\* instance e: clear_random_posts
PairClearRandom(e) ==
    /\ calls < MaxPairCalls
    /\ calls' = calls + 1
    /\ jobs' = clear_random_posts(jobs)
    /\ caller' = e
    /\ event' = Called("clear_random_posts")
    /\ UNCHANGED <<next_id, installed_by, listing>>
    /\ PairFrame

\* instance e: get_scheduled_jobs
PairGetJobs(e) ==
    /\ calls < MaxPairCalls
    /\ calls' = calls + 1
    /\ listing' = get_scheduled_jobs(jobs)
    /\ caller' = e
    /\ event' = Called("get_scheduled_jobs")
    /\ UNCHANGED <<jobs, next_id, installed_by>>
    /\ PairFrame

NextPair ==
    \/ \E e \in Instances : PairInitialize(e)
    \/ \E e \in Instances : PairScheduleRemaining(e)
    \/ \E e \in Instances : PairClearAll(e)
    \/ \E e \in Instances : PairClearRandom(e)
    \/ \E e \in Instances : PairGetJobs(e)

SpecPair == InitPair /\ [][NextPair]_vars

----------------------------------------------------------------------------
(* Properties of the slot planner, checked under SpecPlan *)

NonDecreasing(s) == \A k \in 1..(Len(s) - 1) : s[k] <= s[k + 1]

\* C5: the planner returns a non-decreasing sequence of at most num_posts
\* timestamps, each strictly after the planning time and strictly before the
\* planning time plus the remaining window.
C5_SlotsInsideWindow ==
    planned =>
        /\ Len(post_times) <= num_posts
        /\ NonDecreasing(post_times)
        /\ \A k \in 1..Len(post_times) :
              /\ post_times[k] > plan_now
              /\ post_times[k] < plan_now + minutes_in

\* C6: adjacent timestamps of a returned plan are at least
\* MIN_INTERVAL_MINUTES apart.
C6_AdjacentSlotsSpaced ==
    planned =>
        \A k \in 1..(Len(post_times) - 1) :
            post_times[k + 1] - post_times[k] >= MIN_INTERVAL_MINUTES

\* C17: the planner returns the empty list when num_posts or hours_remaining
\* is zero or less, and exactly num_posts timestamps otherwise.
C17_PlannerReturnsRequestedCount ==
    planned =>
        Len(post_times) = IF num_posts <= 0 \/ minutes_in <= 0 THEN 0 ELSE num_posts

\* C17 witness: the planner was asked for several posts in a window that is
\* still open and returned that many timestamps.
C17_PlannerCount_Witness ==
    /\ planned
    /\ num_posts >= 2
    /\ minutes_in > 0
    /\ Len(post_times) = num_posts

\* the plan that stops at the end of the day: the slots computed one after
\* the other as long as they stay before 23:00 of the planning day
RECURSIVE StoppedPlan(_, _, _, _, _, _)
StoppedPlan(i, current_time, n, W, t, seed) ==
    IF i = n THEN <<>>
    ELSE LET interval == IF i = 0
                         THEN Uniform(min_interval(n, W), min_interval(n, W) * 2,
                                      Digit(seed, i))
                         ELSE Uniform(min_interval(n, W), max_interval(n, W),
                                      Digit(seed, i))
             slot == current_time + interval
         IN IF DateOf(slot) # DateOf(t) \/ HourOf(slot) >= 23
            THEN <<>>
            ELSE <<slot>> \o StoppedPlan(i + 1, slot, n, W, t, seed)

\* C21: when a computed slot reaches the end-of-day boundary the planner
\* stops there: what it returns is the run of slots computed before the
\* boundary, none of them on the next calendar day and none moved back to a
\* clamped time.
C21_PlanStopsAtBoundary ==
    (planned /\ num_posts > 0 /\ minutes_in > 0) =>
        /\ \A k \in 1..Len(post_times) : DateOf(post_times[k]) = DateOf(plan_now)
        /\ \E seed \in 0..MaxPlanSeed :
              post_times = StoppedPlan(0, plan_now, num_posts, minutes_in,
                                       plan_now, seed)

\* C22: slot 0 lies between emin and 2 * emin after the planning time and
\* every later slot between emin and emax after the slot before it, with
\* emin = max(MIN_INTERVAL_MINUTES, W / (n + 1)) and
\* emax = min(MAX_INTERVAL_MINUTES, W / n); so every gap lies between
\* MIN_INTERVAL_MINUTES and min(MAX_INTERVAL_MINUTES, W / n).
C22_OffsetsWithinIntervals ==
    (planned /\ Len(post_times) > 0) =>
        LET emin == Max(MIN_INTERVAL_MINUTES, minutes_in \div (num_posts + 1))
            emax == Min(MAX_INTERVAL_MINUTES, minutes_in \div num_posts)
        IN /\ post_times[1] - plan_now >= emin
           /\ post_times[1] - plan_now <= 2 * emin
           /\ \A k \in 2..Len(post_times) :
                 /\ post_times[k] - post_times[k - 1] >= emin
                 /\ post_times[k] - post_times[k - 1] <= emax
                 /\ post_times[k] - post_times[k - 1] >= MIN_INTERVAL_MINUTES

----------------------------------------------------------------------------
(* Properties of the engine, checked under Spec *)

Today == DateOf(now)

IsRandomPost(j) == j.job_func = "post_callback" /\ j.post_type = "RANDOM"
IsFixedPost(j) == j.job_func = "post_callback" /\ j.post_type = "SCHEDULED"

\* a job still has to fire today (or is overdue)
PendingToday(j, t) == j.next_run < (DateOf(t) + 1) * DAY

PendingRandom(js, t) ==
    { k \in 1..Len(js) : IsRandomPost(js[k]) /\ PendingToday(js[k], t) }

\* no dispatch is half done
Settled == pc # "callback"

\* C1: the number of RANDOM posts of one calendar day, those logged before
\* the start plus those the engine dispatched, never exceeds
\* RANDOM_POSTS_PER_DAY.
C1_DailyQuotaKept ==
    \A d \in 0..MaxDay : posts[d].RANDOM <= RANDOM_POSTS_PER_DAY

\* C2: the job table holds at most one Fixed post job and at most
\* RANDOM_POSTS_PER_DAY minus today's logged RANDOM posts pending RANDOM
\* post jobs.
C2_JobTableWithinQuota ==
    Settled =>
        /\ Cardinality({ k \in 1..Len(jobs) : IsFixedPost(jobs[k]) }) <= 1
        /\ Cardinality(PendingRandom(jobs, now))
              <= Max(0, RANDOM_POSTS_PER_DAY - posts[Today].RANDOM)

\* C3: once the re-plan after a successful RANDOM post is complete, the
\* pending RANDOM post jobs are as many as the new remainder and none of them
\* belongs to the previous plan.
C3_ReplanReplacesPlan ==
    [][ (event'.op = "post" /\ event'.replanned) =>
           /\ Cardinality(PendingRandom(jobs', now'))
                 = Max(0, RANDOM_POSTS_PER_DAY - posts'[DateOf(now')].RANDOM)
           /\ \A k \in PendingRandom(jobs', now') : jobs'[k].id \notin SeqIds(jobs)
      ]_vars

\* what the schedule library holds of a job
Scheduled(j) ==
    [id |-> j.id, tag |-> j.tag, job_func |-> j.job_func,
     post_type |-> j.post_type, at_time |-> j.at_time, next_run |-> j.next_run]

\* the jobs of the table other than job id, as they stand
Others(js, id) ==
    LET rest == SelectSeq(js, LAMBDA j : j.id # id)
    IN [k \in 1..Len(rest) |-> Scheduled(rest[k])]

\* C4: a failed post triggers no re-plan and no retry, and leaves the set of
\* pending jobs as it was: nothing is added or removed, no other job moves,
\* and the failed job is not due again before its next scheduled time.
C4_FailureLeavesPlanAlone ==
    [][ (event'.op = "post" /\ ~event'.success) =>
           /\ ~event'.replanned
           /\ SeqIds(jobs') = SeqIds(jobs)
           /\ Others(jobs', event'.id) = Others(jobs, event'.id)
           /\ \A k \in 1..Len(jobs') :
                 jobs'[k].id = event'.id => jobs'[k].next_run > now'
      ]_vars

\* RANDOM post jobs a and b fire one after the other, no third in between
Consecutive(js, a, b) ==
    /\ js[a].next_run < js[b].next_run
    /\ ~ \E c \in 1..Len(js) :
           /\ IsRandomPost(js[c])
           /\ js[a].next_run < js[c].next_run
           /\ js[c].next_run < js[b].next_run

\* C7: two pending RANDOM post jobs with consecutive fire times are at least
\* MIN_INTERVAL_MINUTES apart.
C7_PendingJobsSpaced ==
    \A a, b \in { k \in 1..Len(jobs) : IsRandomPost(jobs[k]) } :
        Consecutive(jobs, a, b) =>
            jobs[b].next_run - jobs[a].next_run >= MIN_INTERVAL_MINUTES

\* C8: once stop() has returned no job is pending, also when a dispatch
\* callback was in flight on the polling thread when stop() was called.
C8_StopClearsJobTable ==
    stopped => jobs = <<>>

\* C9: a job is dispatched at most once: it leaves the job table when it
\* fires and is never dispatched again, and a job that was cleared is never
\* dispatched.
C9_JobFiresOnce ==
    /\ \A k \in 1..Len(jobs) : jobs[k].runs = 0
    /\ event.op \in {"notify", "post"} => event.prior_runs = 0 /\ event.in_table
    /\ cur.op = "post" => cur.prior_runs = 0 /\ cur.in_table

\* C10: a post job that is due at a polling tick is dispatched at that tick
\* or the next one, exactly once, whatever becomes of the other jobs due in
\* the same tick.
C10_OverdueJobNotSkipped ==
    /\ \A k \in 1..Len(jobs) :
          jobs[k].job_func = "post_callback" => jobs[k].missed <= 1
    /\ event.op = "post" => event.prior_attempts = 0
    /\ cur.op = "post" => cur.prior_attempts = 0

\* the job table as the schedule library holds it
Table(js) == [k \in 1..Len(js) |-> Scheduled(js[k])]

\* C11: when the notifier raises, in an advance-notice job or in the result
\* notification of post_callback, the job table is what it would be had the
\* notification been sent (the job is scheduled for its next run, a successful
\* RANDOM post is followed by the re-plan) and the jobs still due in the same
\* tick are dispatched all the same.
C11_NotifierFailureSwallowed ==
    [][ (event'.op \in {"notify", "post"} /\ ~event'.notified) =>
           LET replan == /\ event'.op = "post"
                         /\ event'.success
                         /\ event'.post_type = "RANDOM"
               waiting == IF event'.op = "post" THEN runnable ELSE Tail(runnable)
           IN /\ \E slots \in (IF replan THEN RemainingPlans(now) ELSE { <<>> }) :
                    Table(jobs') =
                       Table(Rescheduled(schedule_remaining_posts(jobs, next_id,
                                                                  slots, now),
                                         event'.id, now))
              /\ runnable' = waiting
              /\ replan => event'.replanned
      ]_vars

RandomPostIds(js) == { js[k].id : k \in { i \in 1..Len(js) : IsRandomPost(js[i]) } }

\* C12: a planning step (Initialize or the re-plan after a post) whose quota
\* read fails installs no RANDOM job.
C12_FailedQuotaReadPlansNothing ==
    [][ (event'.op \in {"initialize", "post"} /\ ~connected') =>
           RandomPostIds(jobs') \subseteq RandomPostIds(jobs)
      ]_vars

\* C13: Initialize installs a Fixed post job only if no SCHEDULED post is
\* logged today and SCHEDULED_POST_TIME is still ahead today, and the Fixed
\* job it installs fires today.
C13_FixedJobOnlyWhenDue ==
    [][ event'.op = "initialize" =>
           \A k \in 1..Len(jobs') :
              IsFixedPost(jobs'[k]) =>
                 /\ posts'[DateOf(now')].SCHEDULED = 0
                 /\ SCHEDULED_POST_TIME > TimeOfDay(now')
                 /\ DateOf(jobs'[k].next_run) = DateOf(now')
      ]_vars

\* C15: Scenario B.  Every planning step (Initialize, the re-plan after a
\* successful RANDOM post) installs as many RANDOM post jobs as
\* RANDOM_POSTS_PER_DAY exceeds the RANDOM count the quota tracker answers at
\* that moment, none when the count has reached it; Initialize then leaves
\* the Fixed job and its notice job alone in the table.
C15_SlotsRequestedMatchQuota ==
    [][ (event'.op = "initialize" \/ (event'.op = "post" /\ event'.replanned)) =>
           LET counted == IF connected' THEN posts'[DateOf(now')].RANDOM ELSE 0
               added == RandomPostIds(jobs') \ SeqIds(jobs)
           IN /\ Cardinality(added) = Max(0, RANDOM_POSTS_PER_DAY - counted)
              /\ (event'.op = "initialize" /\ counted >= RANDOM_POSTS_PER_DAY) =>
                    /\ RandomPostIds(jobs') = {}
                    /\ Len(SelectSeq(jobs', IsFixedPost)) = 1
                    /\ Len(jobs') = 2
      ]_vars

\* C15 witness: Initialize with the quota already reached has installed the
\* Fixed job and its notice job only.
C15_ScenarioB_Witness ==
    /\ event.op = "initialize"
    /\ posts[Today].RANDOM >= RANDOM_POSTS_PER_DAY
    /\ Len(SelectSeq(jobs, IsFixedPost)) = 1
    /\ Len(jobs) = 2

\* a planning step has just installed jobs
Planned(e) == e.op = "initialize" \/ (e.op = "post" /\ e.replanned)

\* C20: every post job a planning step installs comes with exactly one
\* advance-notice job, tagged notify_<tag of the post job> and firing exactly
\* NOTICE_LEAD_MINUTES before the post job fires.
C20_NoticeJobLeadsPost ==
    [][ Planned(event') =>
           \A k \in 1..Len(jobs') :
              (jobs'[k].job_func = "post_callback" /\ jobs'[k].id \notin SeqIds(jobs)) =>
                 LET notices ==
                        { n \in 1..Len(jobs') :
                             /\ jobs'[n].id \notin SeqIds(jobs)
                             /\ jobs'[n].job_func = "send_notification"
                             /\ jobs'[n].tag = Tag(TRUE, jobs'[k].tag.base,
                                                   jobs'[k].tag.idx) }
                 IN /\ Cardinality(notices) = 1
                    /\ \A n \in notices :
                          jobs'[n].next_run
                             = jobs'[k].next_run - NOTICE_LEAD_MINUTES
      ]_vars

\* the advance-notice jobs a step installed for the post job at place k
NewNotices(js, old, k) ==
    { n \in 1..Len(js) :
         /\ js[n].id \notin SeqIds(old)
         /\ js[n].job_func = "send_notification"
         /\ js[n].tag = Tag(TRUE, js[k].tag.base, js[k].tag.idx) }

\* C23: a post job installed less than NOTICE_LEAD_MINUTES ahead gets no
\* advance-notice job, and no advance-notice job is installed to fire after
\* the post job it announces or on another day.
C23_LateNoticeOmitted ==
    [][ Planned(event') =>
           \A k \in 1..Len(jobs') :
              (jobs'[k].job_func = "post_callback" /\ jobs'[k].id \notin SeqIds(jobs)) =>
                 /\ jobs'[k].next_run - now' < NOTICE_LEAD_MINUTES
                       => NewNotices(jobs', jobs, k) = {}
                 /\ \A n \in NewNotices(jobs', jobs, k) :
                       /\ jobs'[n].next_run <= jobs'[k].next_run
                       /\ DateOf(jobs'[n].next_run) = DateOf(jobs'[k].next_run)
      ]_vars

\* the Fixed post job and its advance-notice job
FixedPart(js) == Table(SelectSeq(js, LAMBDA j : j.tag.base = "daily_post"))

\* C25: outside Initialize, jobs are installed only in the dispatch of a
\* successful RANDOM post, and that re-plan leaves the Fixed post job and its
\* advance-notice job as they were, one of each while the bot runs.
C25_ReplanOnlyAfterRandomSuccess ==
    [][ (event'.op # "initialize" /\ SeqIds(jobs') \ SeqIds(jobs) # {}) =>
           /\ event'.op = "post"
           /\ event'.success
           /\ event'.post_type = "RANDOM"
           /\ FixedPart(jobs') = FixedPart(jobs)
           /\ ~stopped' =>
                 /\ Len(SelectSeq(jobs', IsFixedPost)) = 1
                 /\ Len(FixedPart(jobs')) = 2
      ]_vars

\* C25 witness: the re-plan after a successful RANDOM post has installed a
\* new RANDOM post job while the bot runs.
C25_Replan_Witness ==
    /\ event.op = "post"
    /\ event.replanned
    /\ event.post_type = "RANDOM"
    /\ ~stopped
    /\ \E k \in 1..Len(jobs) : IsRandomPost(jobs[k]) /\ jobs[k].id > event.id
    /\ Len(FixedPart(jobs)) = 2

\* C29: every RANDOM attempt that is logged, with status SUCCESS or FAILURE,
\* lowers the remaining RANDOM quota the engine computes by one, down to zero.
C29_EveryLoggedAttemptCounts ==
    [][ (event'.op = "make_post" /\ event'.post_type = "RANDOM" /\ posts' # posts) =>
           calculate_remaining_posts(now)' = Max(0, calculate_remaining_posts(now) - 1)
      ]_vars

\* C29 witness: a RANDOM attempt that failed has been logged today and the
\* quota is not yet used up.
C29_FailureLogged_Witness ==
    /\ event.op = "make_post"
    /\ event.post_type = "RANDOM"
    /\ connected
    /\ posts[Today].RANDOM_FAILURE > 0
    /\ posts[Today].RANDOM < RANDOM_POSTS_PER_DAY

----------------------------------------------------------------------------
(* Properties of two schedulers side by side, checked under SpecPair *)

\* the jobs of the table that instance e created
JobsOf(js, owner, e) == SelectSeq(js, LAMBDA j : owner[j.id] = e)

\* C18: a call on one PostScheduler instance leaves the jobs the other
\* instance installed as they were, and get_scheduled_jobs of one instance
\* reports no job the other one installed.
C18_EnginesDoNotInterfere ==
    [][ caller' \in Instances =>
           \A other \in Instances \ {caller'} :
              /\ JobsOf(jobs', installed_by', other) = JobsOf(jobs, installed_by, other)
              /\ event'.op = "get_scheduled_jobs" =>
                    \A k \in 1..Len(listing') :
                       installed_by'[listing'[k].id] # other
      ]_vars

\* C24: clear_random_posts removes every job tagged random_post_<i> and
\* leaves every other job of the table as it was.
C24_CancelByPrefix ==
    [][ event'.op = "clear_random_posts" =>
           jobs' = SelectSeq(jobs, LAMBDA j : ~(~j.tag.notify /\ j.tag.base = "random_post"))
      ]_vars

IsNotice(j) == j.job_func = "send_notification"

\* C26: when initialize_daily_schedule returns, the table holds the jobs of
\* that call and no job of an earlier plan: one Fixed post job, as many
\* RANDOM post jobs as the quota leaves, and one notice job for each.
C26_InitializeStartsAfresh ==
    [][ event'.op = "initialize" =>
           LET remaining == Max(0, RANDOM_POSTS_PER_DAY - posts'[DateOf(now')].RANDOM)
           IN /\ SeqIds(jobs') \cap SeqIds(jobs) = {}
              /\ Len(SelectSeq(jobs', IsFixedPost)) = 1
              /\ Len(SelectSeq(jobs', IsRandomPost)) = remaining
              /\ Len(SelectSeq(jobs', IsNotice)) = 1 + remaining
      ]_vars

\* C26 witness: initialize_daily_schedule has returned for the second time
\* at least, over a table that held an earlier plan.
C26_Reinitialized_Witness ==
    /\ event.op = "initialize"
    /\ calls >= 2
    /\ jobs # <<>>
    /\ jobs[1].id > 1
    /\ Len(SelectSeq(jobs, IsRandomPost)) = 1

----------------------------------------------------------------------------
(* Properties of the autopost scheduler, checked under SpecAuto *)

IsAutoRandom(j) == j.job_func = "_execute_scheduled_post" /\ j.post_type = "RANDOM"
IsAutoFixed(j) == j.job_func = "_execute_scheduled_post" /\ j.post_type = "SCHEDULED"

\* setup_daily_schedule has just returned, in the setting of Scenario A
ScenarioA ==
    /\ event.op = "setup"
    /\ schedule_config = DefaultConfig
    /\ TimeOfDay(now) = 8 * 60
    /\ posts[Today].RANDOM = 0
    /\ posts[Today].SCHEDULED = 0

C16_NothingPlannedAfterWindow ==
    (event.op = "setup" /\ TimeOfDay(now) > schedule_config.end_time) =>
        SelectSeq(jobs, IsAutoRandom) = <<>>

InRunPending(tid) == threads[tid].pc \in {"pending", "dispatch"}

\* C19: at most one polling thread is inside run_pending at any time, and no
\* job is being run by two threads.
C19_SinglePollingThread ==
    /\ Cardinality({ tid \in 1..Len(threads) : InRunPending(tid) }) <= 1
    /\ \A a, b \in 1..Len(threads) :
          (a # b /\ threads[a].pc = "dispatch" /\ threads[b].pc = "dispatch")
             => threads[a].job.id # threads[b].job.id


\* what a job of the autopost table was planned as: post type and clock time
PlannedAs(js) ==
    [k \in 1..Len(js) |-> [post_type |-> js[k].post_type, at_time |-> js[k].at_time]]

\* C27: after update_schedule_config returns over a planned table, the
\* pending jobs are those setup_daily_schedule plans from the new
\* configuration, and none planned from the previous one.
C27_UpdateReplans ==
    [][ (event'.op = "update" /\ jobs # <<>>) =>
           PlannedAs(jobs') = PlannedAs(setup_daily_schedule(jobs, 0, schedule_config', now'))
      ]_vars

\* C30: a RANDOM job that _should_make_post lets run results in a post.
C30_GuardsAgree ==
    [][ ( /\ event'.op = "execute"
          /\ event'.post_type = "RANDOM"
          /\ _should_make_post("RANDOM", schedule_config, now) )
           => event'.success
      ]_vars


----------------------------------------------------------------------------
(* Properties of the polling loop after stop(), checked under SpecHeld *)

\* C28: once stop() has been called the polling thread makes no further
\* run_pending call.
C28_NoPollAfterStop ==
    [][ stopped => event'.op # "tick" ]_vars

====
